---- MODULE Spec2Model ----
(***************************************************************************)
(* A model of xPlist: the primitive codec of src/structs/binary.struct.ts *)
(* (held in src/tsconfig.json after the JSON text), the binary component  *)
(* src/components/binary.component.ts, the start-up script that follows   *)
(* it in the same file, and the XML/binary entry points kept in           *)
(* src/structs/interfaces/binary.interface.ts.                            *)
(*                                                                         *)
(* Numbers.  TLC's integers are 32 bits wide, the program's are IEEE      *)
(* doubles and BigInts of up to 64 bits and more.  An integer of the      *)
(* program is therefore a record [neg, mag]: a sign and a big-endian      *)
(* magnitude of MagLen bytes, with arithmetic done byte by byte.          *)
(* Buffers are sequences of bytes (0..255).                                *)
(***************************************************************************)
EXTENDS Integers, Sequences, FiniteSets, TLC

VARIABLES
    op,          \* the exported function called last ("none" before any call)
    args,        \* the arguments of that call
    ret,         \* what the call returned or threw
    pc,          \* position of the start-up script (binary.component.ts 128-267)
    data,        \* the script's file image (line 198)
    header,      \* data.subarray(0, 8), a view [off, len] on data
    trailer,     \* data.subarray(data.length - 32), a view on data
    headerObject,
    trailerObject,
    content,     \* the offset-table slice (line 208), a view on data
    tempBuffer,  \* the loop's remaining bytes (line 249), a view on data
    i,           \* the loop counter (line 250)
    stdout,      \* what the last console.log of the loop printed
    thrown       \* the exception that ended the script ("none" while it runs)

vars == <<op, args, ret, pc, data, header, trailer, headerObject,
          trailerObject, content, tempBuffer, i, stdout, thrown>>

callVars == <<op, args, ret>>
scriptVars == <<pc, data, header, trailer, headerObject, trailerObject,
                content, tempBuffer, i, stdout, thrown>>

----------------------------------------------------------------------------
(* Bounds of the model *)

\* bytes of a magnitude: 72 bits, enough for 2^64 and its neighbours
MagLen == 9
\* integer inputs are +-(2^k + d) for k in 0..MaxExp, d in -MaxDelta..MaxDelta
MaxExp == 64
MaxDelta == 2
\* tag arguments are drawn from -TagSlack..(15 + TagSlack)
TagSlack == 3
\* dates are drawn from -MaxSec..MaxSec seconds around the reference date
MaxSec == 3
\* file images hold strings of 0..MaxStr characters, alone or as the
\* 1..MaxElems elements of an array
MaxStr == 20
MaxElems == 3
\* arrays, Sets and objects of the value trees hold up to MaxItems elements
MaxItems == 2
\* iterations of the script's loop that are followed
MaxIter == 8

----------------------------------------------------------------------------
(* Results of a call: a returned value or a thrown error *)

\* the outcome of a call as the caller sees it, with the name of the function
Outcome(by, r) == [by |-> by, ok |-> r.ok, error |-> r.error, value |-> r.value]

Return(v) == [ok |-> TRUE, error |-> "none", value |-> v]
Throw(e) == [ok |-> FALSE, error |-> e, value |-> <<>>]

Byte == 0..255

SetMin(S) == CHOOSE x \in S : \A y \in S : x <= y

----------------------------------------------------------------------------
(* Magnitudes: MagLen bytes, most significant first *)

MagZero == [j \in 1..MagLen |-> 0]

\* the magnitude of a natural number below 2^31
MagOfNat(n) ==
    [j \in 1..MagLen |->
        IF MagLen - j >= 4 THEN 0 ELSE (n \div (256 ^ (MagLen - j))) % 256]

\* 2^k
MagPow2(k) ==
    [j \in 1..MagLen |-> IF MagLen - j = k \div 8 THEN 2 ^ (k % 8) ELSE 0]

MagLT(a, b) ==
    LET diff == {j \in 1..MagLen : a[j] # b[j]}
    IN  diff # {} /\ a[SetMin(diff)] < b[SetMin(diff)]

MagLE(a, b) == a = b \/ MagLT(a, b)

MagAdd(a, b) ==
    LET carry[j \in 1..(MagLen + 1)] ==
            IF j = MagLen + 1 THEN 0 ELSE (a[j] + b[j] + carry[j + 1]) \div 256
    IN  [j \in 1..MagLen |-> (a[j] + b[j] + carry[j + 1]) % 256]

\* a - b for a >= b
MagSub(a, b) ==
    LET borrow[j \in 1..(MagLen + 1)] ==
            IF j = MagLen + 1 THEN 0
            ELSE IF a[j] - b[j] - borrow[j + 1] < 0 THEN 1 ELSE 0
    IN  [j \in 1..MagLen |-> (a[j] - b[j] - borrow[j + 1]) % 256]

\* the magnitude held by a buffer of at most MagLen bytes, read big-endian
MagOfBytes(bytes) ==
    [j \in 1..MagLen |->
        IF j > MagLen - Len(bytes) THEN bytes[j - (MagLen - Len(bytes))] ELSE 0]

\* the low w bytes of a magnitude
LowBytes(m, w) == [j \in 1..w |-> m[MagLen - w + j]]

----------------------------------------------------------------------------
(* Integers of the program: BigInt values and integral doubles *)

Big(neg, mag) == [neg |-> neg /\ mag # MagZero, mag |-> mag]

BigOfInt(n) == IF n < 0 THEN Big(TRUE, MagOfNat(-n)) ELSE Big(FALSE, MagOfNat(n))

BigNeg(x) == Big(~x.neg, x.mag)

BigAbs(x) == Big(FALSE, x.mag)

\* x <= y
BigLE(x, y) ==
    IF x.neg /\ ~y.neg THEN TRUE
    ELSE IF ~x.neg /\ y.neg THEN FALSE
    ELSE IF x.neg THEN MagLE(y.mag, x.mag)
    ELSE MagLE(x.mag, y.mag)

\* -2^(8w-1) <= x <= 2^(8w-1) - 1
FitsSigned(x, w) ==
    IF x.neg THEN MagLE(x.mag, MagPow2(8 * w - 1))
    ELSE MagLT(x.mag, MagPow2(8 * w - 1))

----------------------------------------------------------------------------
(* Values of the language that reach the codec.  One record shape for all  *)
(* of them; a field a variant does not use holds its default.              *)
(*   t      the variant: "null", "boolean", "number", "bigint", "date",    *)
(*          "buffer", "string", "array", "set", "object", "undefined",     *)
(*          "function", "symbol"                                           *)
(*   bool   the boolean                                                    *)
(*   num    "int" for an integral double, else "frac", "nan", "inf"        *)
(*   int    the integer of an integral double or of a BigInt               *)
(*   f64    the IEEE-754 fields of a double that is not an integer         *)
(*   ms     a Date's time value, in milliseconds after REFERENCE_DATE      *)
(*   bytes  a Buffer's bytes, or a string's UTF-16 code units              *)
(*   keys   an object's own keys, in insertion order                       *)
(*   items  the elements of an array or Set, or an object's values         *)

JSDefault ==
    [t |-> "undefined", bool |-> FALSE, num |-> "int", int |-> Big(FALSE, MagZero),
     f64 |-> [sign |-> 0, exp |-> 0, frac |-> MagZero],
     ms |-> 0, bytes |-> <<>>, keys |-> <<>>, items |-> <<>>]

JSNull == [JSDefault EXCEPT !.t = "null"]
JSBool(b) == [JSDefault EXCEPT !.t = "boolean", !.bool = b]
JSNumber(x) == [JSDefault EXCEPT !.t = "number", !.int = x]
JSBigInt(x) == [JSDefault EXCEPT !.t = "bigint", !.int = x]
JSReal(kind, d) == [JSDefault EXCEPT !.t = "number", !.num = kind, !.f64 = d]
JSDate(ms) == [JSDefault EXCEPT !.t = "date", !.ms = ms]
JSBuffer(b) == [JSDefault EXCEPT !.t = "buffer", !.bytes = b]
JSString(units) == [JSDefault EXCEPT !.t = "string", !.bytes = units]
JSArray(items) == [JSDefault EXCEPT !.t = "array", !.items = items]
JSSet(items) == [JSDefault EXCEPT !.t = "set", !.items = items]
JSObject(keys, items) == [JSDefault EXCEPT !.t = "object", !.keys = keys, !.items = items]

\* typeof value !== 'bigint' && !Number.isInteger(value)
IsIntegerOrBigInt(value) ==
    value.t = "bigint" \/ (value.t = "number" /\ value.num = "int")

----------------------------------------------------------------------------
(* Bit operations on the 32-bit integers of the language, for operands in  *)
(* 0..2^31 - 1: done bit by bit.                                           *)

\* bit k of a
Bit(a, k) == (a \div (2 ^ k)) % 2

BitAnd(a, b) ==
    LET acc[k \in 0..31] ==
            IF k = 31 THEN 0
            ELSE (IF Bit(a, k) = 1 /\ Bit(b, k) = 1 THEN 2 ^ k ELSE 0) + acc[k + 1]
    IN  acc[0]

BitOr(a, b) ==
    LET acc[k \in 0..31] ==
            IF k = 31 THEN 0
            ELSE (IF Bit(a, k) = 1 \/ Bit(b, k) = 1 THEN 2 ^ k ELSE 0) + acc[k + 1]
    IN  acc[0]

\* a << n
ShiftLeft(a, n) == a * (2 ^ n)

\* a >> n
ShiftRight(a, n) == a \div (2 ^ n)

----------------------------------------------------------------------------
(* binary.struct.ts: the type/info tag byte *)

\* the range check off by one: 16 passes as a type or an info
encodeTypeInfoStructLoose(type, info) ==
    IF type < 0 \/ type > 16 \/ info < 0 \/ info > 16
    THEN Throw("RangeError")
    ELSE Return(BitOr(ShiftLeft(type, 4), info))

encodeTypeInfoStruct(type, info) ==
    IF type < 0 \/ type > 15 \/ info < 0 \/ info > 15
    THEN Throw("RangeError")
    ELSE Return(BitOr(ShiftLeft(type, 4), info))

\* the info nibble masked with 0x7 instead of 0xF
decodeTypeInfoStructNarrow(value) ==
    [type |-> ShiftRight(value, 4), info |-> BitAnd(value, 7)]

decodeTypeInfoStruct(value) ==
    [type |-> ShiftRight(value, 4), info |-> BitAnd(value, 15)]

----------------------------------------------------------------------------
(* Buffer's fixed-width integer accessors (node:buffer), big-endian        *)
(* two's complement.  A write of a value outside the width's range throws  *)
(* ERR_OUT_OF_RANGE, a RangeError.                                         *)

\* the w bytes of x in two's complement: x itself, or 2^(8w) - |x|
TwosComplement(x, w) ==
    IF x.neg THEN LowBytes(MagSub(MagPow2(8 * w), x.mag), w)
    ELSE LowBytes(x.mag, w)

\* writeInt8, writeInt16BE, writeInt32BE, writeBigInt64BE into a fresh buffer
WriteIntBE(x, w) ==
    IF FitsSigned(x, w) THEN Return(TwosComplement(x, w)) ELSE Throw("RangeError")

\* readInt8, readInt16BE, readInt32BE, readBigInt64BE at offset 0
ReadIntBE(buffer, w) ==
    IF Len(buffer) < w THEN Throw("RangeError")
    ELSE LET u == MagOfBytes(SubSeq(buffer, 1, w))
         IN  IF buffer[1] >= 128
             THEN Return(Big(TRUE, MagSub(MagPow2(8 * w), u)))
             ELSE Return(Big(FALSE, u))

----------------------------------------------------------------------------
(* binary.struct.ts: encodeInt, decodeInt.  value is an integral double or *)
(* a BigInt; Number(value) and BigInt(value) keep its integer.             *)

encodeInt(value, size) ==
    IF size \in {1, 2, 4, 8} THEN WriteIntBE(value.int, size)
    ELSE Throw("Error")

\* the unsigned readers (readUInt8, readUInt16BE, ...) used for the signed ones
decodeIntUnsigned(buffer, size) ==
    IF size \in {1, 2, 4, 8} THEN Return(Big(FALSE, MagOfBytes(SubSeq(buffer, 1, size))))
    ELSE Throw("Error")

decodeInt(buffer, size) ==
    IF size \in {1, 2, 4, 8} THEN ReadIntBE(buffer, size)
    ELSE Throw("Error")

----------------------------------------------------------------------------
(* binary.component.ts: calculateIntSize *)

\* the thresholds compared with < instead of <=
calculateIntSizeStrict(value) ==
    IF ~IsIntegerOrBigInt(value) THEN Throw("TypeError")
    ELSE LET number == value.int
             absValue == IF number.neg THEN BigNeg(number) ELSE number
         IN  IF MagLT(MagSub(MagPow2(63), MagOfNat(1)), absValue.mag)
             THEN Throw("RangeError")
             ELSE IF MagLT(absValue.mag, MagOfNat(127)) THEN Return(1)
             ELSE IF MagLT(absValue.mag, MagOfNat(32767)) THEN Return(2)
             ELSE IF MagLT(absValue.mag, MagOfNat(2147483647)) THEN Return(4)
             ELSE Return(8)

\* the guard tests typeof value for 'number' instead of Number.isInteger:
\* BigInt(value) then throws a RangeError for a number that is no integer
calculateIntSizeAnyNumber(value) ==
    IF value.t \notin {"bigint", "number"} THEN Throw("TypeError")
    ELSE IF value.t = "number" /\ value.num # "int" THEN Throw("RangeError")
    ELSE LET number == value.int
             absValue == IF number.neg THEN BigNeg(number) ELSE number
         IN  IF MagLT(MagSub(MagPow2(63), MagOfNat(1)), absValue.mag)
             THEN Throw("RangeError")
             ELSE IF MagLE(absValue.mag, MagOfNat(127)) THEN Return(1)
             ELSE IF MagLE(absValue.mag, MagOfNat(32767)) THEN Return(2)
             ELSE IF MagLE(absValue.mag, MagOfNat(2147483647)) THEN Return(4)
             ELSE Return(8)

calculateIntSize(value) ==
    IF ~IsIntegerOrBigInt(value) THEN Throw("TypeError")
    ELSE LET number == value.int
             absValue == IF number.neg THEN BigNeg(number) ELSE number
         IN  IF MagLT(MagSub(MagPow2(63), MagOfNat(1)), absValue.mag)
             THEN Throw("RangeError")
             ELSE IF MagLE(absValue.mag, MagOfNat(127)) THEN Return(1)
             ELSE IF MagLE(absValue.mag, MagOfNat(32767)) THEN Return(2)
             ELSE IF MagLE(absValue.mag, MagOfNat(2147483647)) THEN Return(4)
             ELSE Return(8)

----------------------------------------------------------------------------
(* IEEE-754 binary64.  A double is [sign, exp, frac]: the sign bit, the    *)
(* biased 11-bit exponent and the 52-bit fraction (a magnitude).           *)

\* the byte of a magnitude at position p, counted from the least significant
MagByte(a, p) == IF p >= 0 /\ p < MagLen THEN a[MagLen - p] ELSE 0

\* a * 2^n, the bits above the magnitude's width dropped
MagShiftLeft(a, n) ==
    [j \in 1..MagLen |->
        ((MagByte(a, MagLen - j - (n \div 8)) * (2 ^ (n % 8))) % 256)
        + ((MagByte(a, MagLen - j - (n \div 8) - 1) * (2 ^ (n % 8))) \div 256)]

\* a \div 2^n
MagShiftRight(a, n) ==
    [j \in 1..MagLen |->
        (MagByte(a, MagLen - j + (n \div 8)) \div (2 ^ (n % 8)))
        + ((MagByte(a, MagLen - j + (n \div 8) + 1) * (2 ^ (8 - (n % 8)))) % 256)]

\* quotient and remainder of a magnitude by a small divisor (long division)
MagDivMod(a, d) ==
    LET rem[j \in 0..MagLen] == IF j = 0 THEN 0 ELSE (rem[j - 1] * 256 + a[j]) % d
    IN  [quot |-> [j \in 1..MagLen |-> (rem[j - 1] * 256 + a[j]) \div d],
         rem |-> rem[MagLen]]

\* a magnitude below 2^31 as a number
MagToNat(a) ==
    a[MagLen] + 256 * a[MagLen - 1] + 65536 * a[MagLen - 2] + 16777216 * a[MagLen - 3]

DoubleZero == [sign |-> 0, exp |-> 0, frac |-> MagZero]

\* the double nearest to k / 1000 (round to nearest, ties to even), |k| < 2^31:
\* the quotient deltaTime / 1000 of line 358
DoubleDiv1000(k) ==
    IF k = 0 THEN DoubleZero
    ELSE LET a == IF k < 0 THEN -k ELSE k
             \* 2^e <= a / 1000 < 2^(e+1)
             e == IF a >= 1000
                  THEN CHOOSE x \in 0..21 :
                         /\ 1000 * (2 ^ x) <= a
                         /\ (x = 21 \/ a < 1000 * (2 ^ (x + 1)))
                  ELSE -(CHOOSE x \in 1..10 :
                         /\ 1000 <= a * (2 ^ x)
                         /\ a * (2 ^ (x - 1)) < 1000)
             qr == MagDivMod(MagShiftLeft(MagOfNat(a), 52 - e), 1000)
             up == 2 * qr.rem > 1000 \/ (2 * qr.rem = 1000 /\ qr.quot[MagLen] % 2 = 1)
             m == IF up THEN MagAdd(qr.quot, MagOfNat(1)) ELSE qr.quot
             carry == m = MagPow2(53)
         IN  [sign |-> IF k < 0 THEN 1 ELSE 0,
              exp |-> (IF carry THEN e + 1 ELSE e) + 1023,
              frac |-> IF carry THEN MagZero ELSE MagSub(m, MagPow2(52))]

\* buffer.writeDoubleBE: the 8 bytes of a double
DoubleBytes(d) ==
    <<d.sign * 128 + (d.exp \div 16),
      (d.exp % 16) * 16 + d.frac[MagLen - 6]>> \o LowBytes(d.frac, 6)

\* buffer.readDoubleBE(offset): the double held by the 8 bytes after offset
ReadDouble(buffer, offset) ==
    LET b == SubSeq(buffer, offset + 1, offset + 8)
    IN  [sign |-> b[1] \div 128,
         exp |-> (b[1] % 128) * 16 + (b[2] \div 16),
         frac |-> MagOfBytes(<<b[2] % 16>> \o SubSeq(b, 3, 8))]

\* ToIntegerOrInfinity of a finite double whose integer part is below 2^31:
\* the number truncated toward zero
DoubleTrunc(d) ==
    LET e == d.exp - 1023
        n == IF d.exp = 0 \/ e < 0 THEN 0
             ELSE MagToNat(MagShiftRight(MagAdd(MagPow2(52), d.frac), 52 - e))
    IN  IF d.sign = 1 THEN -n ELSE n

----------------------------------------------------------------------------
(* Date.  A time value is held as milliseconds after REFERENCE_DATE        *)
(* (Date.UTC(2001, 0, 1) = 978307200000 is a whole number of days and      *)
(* exceeds TLC's integers), so new Date(REFERENCE_DATE).getTime() is 0.    *)
(* tza is the local time zone's offset from UTC in minutes; the inputs     *)
(* lie within days of the reference date, where a zone's offset is fixed.  *)

REFERENCE_DATE == 0

\* Date.prototype.setSeconds(sec) of ECMA-262: the seconds field of the LOCAL
\* time is replaced by ToIntegerOrInfinity(sec); day, hour, minute and
\* millisecond are kept
DateSetSeconds(tv, sec, tza) ==
    LET t == tv + tza * 60000
        day == t \div 86400000
        hour == (t \div 3600000) % 24
        min == (t \div 60000) % 60
        milli == t % 1000
        time == hour * 3600000 + min * 60000 + DoubleTrunc(sec) * 1000 + milli
    IN  day * 86400000 + time - tza * 60000

\* Date.prototype.getUTCSeconds
DateGetUTCSeconds(tv) == (tv \div 1000) % 60

\* x - s for a double x and the seconds s of the base date: the base date is
\* 2001-01-01T00:00:00Z, s is 0 and x - 0 is x
DoubleMinus(x, s) == IF s = 0 THEN x ELSE DoubleDiv1000(DoubleTrunc(x) * 1000 - s * 1000)

decodeDateStruct(buffer, offset, tza) ==
    LET dateDouble == ReadDouble(buffer, offset + 1)
        baseDate == REFERENCE_DATE
    IN  DateSetSeconds(baseDate, DoubleMinus(dateDouble, DateGetUTCSeconds(baseDate)), tza)

encodeDateStruct(date) ==
    LET baseDate == REFERENCE_DATE
        deltaTime == date.ms - baseDate
    IN  <<encodeTypeInfoStruct(3, 3).value>> \o DoubleBytes(DoubleDiv1000(deltaTime))

----------------------------------------------------------------------------
(* binary.struct.ts: isFloatPrecision, encodeFloatStruct.  value is a      *)
(* double that is not an integer (num = "frac", "nan" or "inf").           *)

\* the low n bits of a magnitude are zero
LowBitsZero(a, n) == MagShiftLeft(MagShiftRight(a, n), n) = a

\* the bits a double loses when stored as a 32-bit float: 29 for a normal
\* float, more for a subnormal one
FloatShift(d) == IF d.exp - 1023 >= -126 THEN 29 ELSE 29 + (-126 - (d.exp - 1023))

isFloatPrecision(value) ==
    LET d == value.f64
        e == d.exp - 1023
    IN  IF value.num = "nan" THEN FALSE
        ELSE IF value.num = "inf" THEN TRUE
        ELSE IF d.exp = 0 \/ e > 127 \/ e < -149 THEN FALSE
        ELSE LowBitsZero(MagAdd(MagPow2(52), d.frac), FloatShift(d))

\* the 4 bytes of a number below 2^31
Word32(n) == <<n \div 16777216, (n \div 65536) % 256, (n \div 256) % 256, n % 256>>

\* buffer.writeFloatBE: the double rounded to the nearest 32-bit float
FloatBytes(value) ==
    LET d == value.f64
        e == d.exp - 1023
        sh == FloatShift(d)
        m == MagAdd(MagPow2(52), d.frac)
        q == MagShiftRight(m, sh)
        r == MagSub(m, MagShiftLeft(q, sh))
        half == MagPow2(sh - 1)
        up == MagLT(half, r) \/ (r = half /\ q[MagLen] % 2 = 1)
        q1 == MagToNat(q) + (IF up THEN 1 ELSE 0)
        bits == IF e >= -126 THEN (e + 127) * 8388608 + (q1 - 8388608) ELSE q1
        signed == [w \in 1..4 |-> IF w = 1 THEN d.sign * 128 ELSE 0]
        Plus(b) == [w \in 1..4 |-> b[w] + signed[w]]
    IN  IF value.num = "nan" THEN <<127, 192, 0, 0>>
        ELSE IF value.num = "inf" THEN Plus(<<127, 128, 0, 0>>)
        ELSE IF d.exp = 0 \/ e < -150 THEN Plus(<<0, 0, 0, 0>>)
        ELSE IF e > 127 \/ bits >= 2139095040 THEN Plus(<<127, 128, 0, 0>>)
        ELSE Plus(Word32(bits))

encodeFloatStruct(value, size) ==
    IF size = 4 THEN Return(FloatBytes(value))
    ELSE IF size = 8 THEN Return(DoubleBytes(value.f64))
    ELSE Throw("Error")

----------------------------------------------------------------------------
(* binary.component.ts: encodeType, encodeBinary;                          *)
(* binary.interface.ts: encodeBinaryPlist                                  *)

\* Math.round(Math.sqrt(n)): the r with r - 1/2 <= sqrt(n) < r + 1/2
\* Math.floor in place of Math.round
FloorSqrt(n) == CHOOSE r \in 0..(n + 1) : r * r <= n /\ n < (r + 1) * (r + 1)

RoundSqrt(n) ==
    CHOOSE r \in 0..(n + 1) :
        /\ (r = 0 \/ (2 * r - 1) * (2 * r - 1) <= 4 * n)
        /\ 4 * n < (2 * r + 1) * (2 * r + 1)

\* /^[\x00-\x7F]*$/.test(datum)
IsAscii(units) == \A k \in 1..Len(units) : units[k] <= 127

\* Buffer.alloc(n)
BufferAlloc(n) == [k \in 1..n |-> 0]

encodeType(datum) ==
    IF datum.t = "null" THEN Return(<<0>>)
    ELSE IF datum.t = "boolean" /\ ~datum.bool THEN Return(<<8>>)
    ELSE IF datum.t = "boolean" THEN Return(<<9>>)
    ELSE IF datum.t = "number" THEN
        IF datum.num = "int" THEN
            LET size == calculateIntSize(datum)
                info == RoundSqrt(size.value - 1)
                type == encodeTypeInfoStruct(1, info)
                encode == encodeInt(datum, size.value)
            IN  IF ~size.ok THEN size
                ELSE IF ~type.ok THEN type
                ELSE IF ~encode.ok THEN encode
                ELSE Return(<<type.value>> \o encode.value)
        ELSE
            LET size == IF isFloatPrecision(datum) THEN 4 ELSE 8
                info == RoundSqrt(size - 1)
                type == encodeTypeInfoStruct(2, info)
                encode == encodeFloatStruct(datum, size)
            IN  IF ~type.ok THEN type
                ELSE IF ~encode.ok THEN encode
                ELSE Return(<<type.value>> \o encode.value)
    ELSE IF datum.t = "date" THEN Return(encodeDateStruct(datum))
    ELSE IF datum.t = "buffer" THEN Return(BufferAlloc(0))
    ELSE IF datum.t = "string" /\ IsAscii(datum.bytes) THEN Return(BufferAlloc(0))
    ELSE IF datum.t = "string" THEN Return(BufferAlloc(0))
    ELSE IF datum.t = "array" THEN Return(BufferAlloc(0))
    ELSE IF datum.t = "set" THEN Return(BufferAlloc(0))
    ELSE IF datum.t = "object" THEN Return(BufferAlloc(0))
    ELSE Throw("Error")

encodeBinary(datum) == Return(BufferAlloc(0))

encodeBinaryPlist(value) == Return(BufferAlloc(15))

----------------------------------------------------------------------------
(* @remotex-labs/xstruct, as the program uses it: a Struct is a list of    *)
(* fields laid out one after the other; toObject reads them from the       *)
(* start of the buffer it is given.                                        *)

Field(name, type, size) == [name |-> name, type |-> type, size |-> size]

\* binary.struct.ts
headerStruct ==
    <<Field("magic", "string", 6), Field("version", "string", 2)>>

\* binary.struct.ts
trailerStruct ==
    <<Field("unused", "UInt8[]", 5),
      Field("sortVersion", "UInt8", 1),
      Field("offsetTableOffsetSize", "UInt8", 1),
      Field("objectReferenceSize", "UInt8", 1),
      Field("numberOfObjects", "BigUInt64BE", 8),
      Field("rootObjectOffset", "BigUInt64BE", 8),
      Field("offsetTableOffset", "BigUInt64BE", 8)>>

\* the start-up script's own header schema
scriptHeaderStruct ==
    <<Field("header", "string", 6), Field("version", "string", 2)>>

\* the start-up script's own trailer schema
scriptTrailerStruct ==
    <<Field("unused", "UInt8[]", 5),
      Field("sortVersion", "UInt8", 1),
      Field("offsetIntSize", "UInt8", 1),
      Field("objectRefSize", "UInt8", 1),
      Field("numObjects", "BigUInt64BE", 8),
      Field("offsetTableOffset", "BigUInt64BE", 8)>>

\* the offset of field k: the sizes of the fields before it
FieldOffset(struct, k) ==
    LET sum[n \in 0..Len(struct)] == IF n = 0 THEN 0 ELSE sum[n - 1] + struct[n].size
    IN  sum[k - 1]

StructSize(struct) == FieldOffset(struct, Len(struct) + 1)

FieldValue(field, bytes) ==
    IF field.type = "UInt8" THEN bytes[1]
    ELSE IF field.type = "BigUInt64BE" THEN Big(FALSE, MagOfBytes(bytes))
    ELSE bytes

\* struct.toObject(buffer)
toObject(struct, buffer) ==
    IF Len(buffer) < StructSize(struct) THEN Throw("Error")
    ELSE Return(
        [name \in {struct[k].name : k \in 1..Len(struct)} |->
            LET k == CHOOSE n \in 1..Len(struct) : struct[n].name = name
            IN  FieldValue(struct[k],
                    SubSeq(buffer, FieldOffset(struct, k) + 1,
                           FieldOffset(struct, k) + struct[k].size))])

----------------------------------------------------------------------------
(* Buffer views.  buf.subarray(start, end) shares the memory of buf: a     *)
(* view is its offset in data and its length.                              *)

Clamp(x, lo, hi) == IF x < lo THEN lo ELSE IF x > hi THEN hi ELSE x

\* buf.subarray(start, end): negative indices count from the end, both are
\* clamped to the buffer
Subarray(view, start, end) ==
    LET from == Clamp(IF start < 0 THEN view.len + start ELSE start, 0, view.len)
        to == Clamp(IF end < 0 THEN view.len + end ELSE end, 0, view.len)
    IN  [off |-> view.off + from, len |-> IF to > from THEN to - from ELSE 0]

ViewBytes(buffer, view) == SubSeq(buffer, view.off + 1, view.off + view.len)

\* Number(x) of a BigInt used as an index: anything beyond TLC's integers
\* lies beyond every buffer
IndexOf(x) ==
    IF MagLT(x.mag, MagPow2(30)) THEN MagToNat(x.mag) ELSE 1073741824

----------------------------------------------------------------------------
(* File images: what plistlib.dumps(..., fmt=FMT_BINARY) writes (line 269) *)
(* for a string of n 'A's (m = 0) or for an array of m such strings of     *)
(* n, n+1, ... characters.  Line 198 is the image for n = 200, m = 0.      *)

Repeat(x, n) == [k \in 1..n |-> x]

\* the object of an ASCII string of n 'A's
StringObject(n) ==
    (IF n < 15 THEN <<80 + n>> ELSE <<95, 16, n>>) \o Repeat(65, n)

\* the objects of the image, in index order
FileObjects(n, m) ==
    IF m = 0 THEN <<StringObject(n)>>
    ELSE <<<<160 + m>> \o [k \in 1..m |-> k]>> \o [k \in 1..m |-> StringObject(n + k - 1)]

Concat(seqs) ==
    LET cat[k \in 0..Len(seqs)] == IF k = 0 THEN <<>> ELSE cat[k - 1] \o seqs[k]
    IN  cat[Len(seqs)]

FileImage(n, m) ==
    LET objects == FileObjects(n, m)
        offsets == [k \in 1..Len(objects) |-> 8 + Len(Concat(SubSeq(objects, 1, k - 1)))]
        body == Concat(objects)
    IN  <<98, 112, 108, 105, 115, 116, 48, 48>>
        \o body
        \o offsets
        \o <<0, 0, 0, 0, 0, 0, 1, 1>>
        \o LowBytes(MagOfNat(Len(objects)), 8)
        \o LowBytes(MagOfNat(0), 8)
        \o LowBytes(MagOfNat(8 + Len(body)), 8)

\* the literal of line 198
SampleLen == 200

SampleFile == FileImage(SampleLen, 0)

FileInputs ==
    {FileImage(n, m) : n \in 0..MaxStr, m \in 0..MaxElems} \cup {SampleFile}

\* buffer with the bytes at 0-based position pos replaced
Patch(buffer, pos, bytes) ==
    [k \in 1..Len(buffer) |->
        IF k > pos /\ k <= pos + Len(bytes) THEN bytes[k - pos] ELSE buffer[k]]

\* the image of "A" (43 bytes, one object at 8, offset table at 10) and of
\* ["AA", "AAA"] (53 bytes, three objects, offset table at 18)
SmallFile == FileImage(1, 0)
ArrayFile == FileImage(2, 2)

\* buffers that are no file image: every proper prefix of SmallFile, its
\* last 39 bytes, and runs of zero bytes
TruncatedInputs ==
    {SubSeq(SmallFile, 1, n) : n \in 0..(Len(SmallFile) - 1)}
    \cup {SubSeq(SmallFile, Len(SmallFile) - 38, Len(SmallFile))}
    \cup {Repeat(0, n) : n \in {8, 24, 32, 39, 40}}

\* images whose first bytes are not "bplist": "BPLIST", "bplisT", "xplist"
BadMagicInputs ==
    {Patch(image, 0, magic) :
        image \in {SmallFile, ArrayFile},
        magic \in {<<66, 80, 76, 73, 83, 84>>, <<98, 112, 108, 105, 115, 84>>,
                   <<120, 112, 108, 105, 115, 116>>}}

\* images with an offset-table entry in the header (0, 7), in the trailer or
\* past the end, and images whose trailer puts the table past the end
BadOffsetInputs ==
    {Patch(SmallFile, 10, <<entry>>) : entry \in {0, 7, 11, 43, 255}}
    \cup {Patch(ArrayFile, 18 + k, <<entry>>) : k \in 0..2, entry \in {0, 21, 200}}
    \cup {Patch(image, Len(image) - 1, <<start>>) :
            image \in {SmallFile, ArrayFile}, start \in {60, 255}}

\* images of ["AA", "AAA"] whose objects refer to themselves or to no object:
\* the first element of the root array is the array (index 0) or an index
\* that is no object (3, 200), and object 1 made an array of the root, so
\* that the root reaches itself through it
BadReferenceInputs ==
    {Patch(ArrayFile, 9, <<ref>>) : ref \in {0, 3, 200}}
    \cup {Patch(ArrayFile, 11, <<161, 0>>)}

\* buffers in which the script's content (line 208) is exactly an offset
\* table: the header, n entries of w bytes and a trailer with numObjects n
\* and offsetIntSize w
ExactTableInputs ==
    {<<98, 112, 108, 105, 115, 116, 48, 48>>
        \o Repeat(8, n * w)
        \o <<0, 0, 0, 0, 0, 0, w, 1>>
        \o LowBytes(MagOfNat(n), 8)
        \o LowBytes(MagOfNat(0), 8)
        \o LowBytes(MagOfNat(8), 8) : n \in 1..3, w \in {1, 2}}

BufferInputs ==
    TruncatedInputs \cup BadMagicInputs \cup BadOffsetInputs \cup BadReferenceInputs
    \cup ExactTableInputs

----------------------------------------------------------------------------
(* decodeBinary.  The source has no binary decoder beyond the start-up     *)
(* script; this one follows the Binary Deserializer of the design          *)
(* (validation of length, magic and offset table, then index-driven        *)
(* resolution of the root object).  Objects of kind 2 (real) and 8 (UID)   *)
(* are not among the model's value trees and are not resolved.             *)

\* c * a for a small factor c
MagMulSmall(a, c) ==
    LET carry[j \in 1..(MagLen + 1)] ==
            IF j = MagLen + 1 THEN 0 ELSE (a[j] * c + carry[j + 1]) \div 256
    IN  [j \in 1..MagLen |-> (a[j] * c + carry[j + 1]) % 256]

\* the milliseconds of a double number of seconds, rounded to the nearest
DoubleMillis(d) ==
    LET e == d.exp - 1023
        m == MagMulSmall(MagAdd(MagPow2(52), d.frac), 1000)
        n == IF d.exp = 0 \/ 52 - e > 64 THEN 0
             ELSE MagToNat(MagShiftRight(MagAdd(m, MagPow2(52 - e - 1)), 52 - e))
    IN  IF d.sign = 1 THEN -n ELSE n

\* the unsigned number held by the bytes at 0-based position pos
UIntAt(buffer, pos, width) == MagToNat(MagOfBytes(SubSeq(buffer, pos + 1, pos + width)))

\* the count of an object at pos whose tag has this info nibble: the nibble,
\* or for 0xF the integer object that follows the tag; and where the payload starts
ObjectCount(buffer, pos, info) ==
    IF info < 15 THEN [count |-> info, payload |-> pos + 1]
    ELSE LET width == 2 ^ BitAnd(buffer[pos + 2], 15)
         IN  [count |-> UIntAt(buffer, pos + 2, width), payload |-> pos + 2 + width]

RECURSIVE ResolveObject(_, _, _, _, _)
ResolveObject(buffer, offsets, refSize, index, visiting) ==
    IF index >= Len(offsets) \/ index \in visiting THEN Throw("MalformedObjectError")
    ELSE
    LET pos == offsets[index + 1]
        tag == decodeTypeInfoStruct(buffer[pos + 1])
        oc == ObjectCount(buffer, pos, tag.info)
        Ref(k) == UIntAt(buffer, oc.payload + (k - 1) * refSize, refSize)
        Child(k) == ResolveObject(buffer, offsets, refSize, Ref(k), visiting \cup {index})
        Children(n) == [k \in 1..n |-> Child(k)]
        Failed(rs) == {k \in 1..Len(rs) : ~rs[k].ok}
        Values(rs) == [k \in 1..Len(rs) |-> rs[k].value]
    IN  IF tag.type = 0 THEN
            IF tag.info = 0 THEN Return(JSNull)
            ELSE IF tag.info = 8 THEN Return(JSBool(FALSE))
            ELSE IF tag.info = 9 THEN Return(JSBool(TRUE))
            ELSE Throw("MalformedObjectError")
        ELSE IF tag.type = 1 THEN
            IF tag.info > 3 THEN Throw("MalformedObjectError")
            ELSE Return(JSNumber(
                    decodeInt(SubSeq(buffer, pos + 2, pos + 1 + 2 ^ tag.info), 2 ^ tag.info).value))
        ELSE IF tag.type = 3 THEN
            Return(JSDate(REFERENCE_DATE + DoubleMillis(ReadDouble(buffer, pos + 1))))
        ELSE IF tag.type = 4 THEN
            Return(JSBuffer(SubSeq(buffer, oc.payload + 1, oc.payload + oc.count)))
        ELSE IF tag.type = 5 THEN
            Return(JSString(SubSeq(buffer, oc.payload + 1, oc.payload + oc.count)))
        ELSE IF tag.type = 6 THEN
            Return(JSString([k \in 1..oc.count |-> UIntAt(buffer, oc.payload + 2 * (k - 1), 2)]))
        ELSE IF tag.type \in {10, 12} THEN
            LET rs == Children(oc.count)
            IN  IF Failed(rs) # {} THEN rs[SetMin(Failed(rs))]
                ELSE IF tag.type = 10 THEN Return(JSArray(Values(rs)))
                ELSE Return(JSSet(Values(rs)))
        ELSE IF tag.type = 13 THEN
            LET rs == Children(2 * oc.count)
            IN  IF Failed(rs) # {} THEN rs[SetMin(Failed(rs))]
                ELSE IF \E k \in 1..oc.count : rs[k].value.t # "string"
                THEN Throw("MalformedObjectError")
                ELSE Return(JSObject([k \in 1..oc.count |-> rs[k].value.bytes],
                                     [k \in 1..oc.count |-> rs[oc.count + k].value]))
        ELSE Throw("MalformedObjectError")

decodeBinary(buffer) ==
    IF Len(buffer) < 8 + 32 THEN Throw("TruncatedFileError")
    ELSE
    LET head == toObject(headerStruct, SubSeq(buffer, 1, 8)).value
        tr == toObject(trailerStruct, SubSeq(buffer, Len(buffer) - 31, Len(buffer))).value
        count == IndexOf(tr.numberOfObjects)
        start == IndexOf(tr.offsetTableOffset)
        width == tr.offsetTableOffsetSize
        offsets == [k \in 1..count |-> UIntAt(buffer, start + (k - 1) * width, width)]
    IN  IF head.magic # <<98, 112, 108, 105, 115, 116>> THEN Throw("InvalidMagicError")
        ELSE IF start + count * width > Len(buffer) - 32 THEN Throw("CorruptOffsetTableError")
        ELSE IF \E k \in 1..count : offsets[k] < 8 \/ offsets[k] >= Len(buffer) - 32
        THEN Throw("CorruptOffsetTableError")
        ELSE ResolveObject(buffer, offsets, tr.objectReferenceSize,
                           IndexOf(tr.rootObjectOffset), {})

----------------------------------------------------------------------------
(* The XML encoder of binary.interface.ts.  Text is a sequence of          *)
(* character codes, as the units of a string value are.                    *)

JSFunction == [JSDefault EXCEPT !.t = "function"]
JSSymbol == [JSDefault EXCEPT !.t = "symbol"]

\* line 273
xmlVersion ==
    <<60, 63, 120, 109, 108, 32, 118, 101, 114, 115, 105, 111, 110, 61, 34,
      49, 46, 48, 34, 32, 101, 110, 99, 111, 100, 105, 110, 103, 61, 34, 85,
      84, 70, 45, 56, 34, 63, 62>>

\* line 274
doctype ==
    <<60, 33, 68, 79, 67, 84, 89, 80, 69, 32, 112, 108, 105, 115, 116, 32,
      80, 85, 66, 76, 73, 67, 32, 34, 45, 47, 47, 65, 112, 112, 108, 101, 47,
      47, 68, 84, 68, 32, 80, 76, 73, 83, 84, 32, 49, 46, 48, 47, 47, 69, 78,
      34, 32, 34, 104, 116, 116, 112, 58, 47, 47, 119, 119, 119, 46, 97, 112,
      112, 108, 101, 46, 99, 111, 109, 47, 68, 84, 68, 115, 47, 80, 114, 111,
      112, 101, 114, 116, 121, 76, 105, 115, 116, 45, 49, 46, 48, 46, 100,
      116, 100, 34, 62>>

\* line 275
plistVersion ==
    <<60, 112, 108, 105, 115, 116, 32, 118, 101, 114, 115, 105, 111, 110, 61,
      34, 49, 46, 48, 34, 62>>

\* typeof value
TypeOf(value) ==
    IF value.t \in {"null", "date", "buffer", "array", "set", "object"} THEN "object"
    ELSE value.t

\* the decimal digits of a natural number
Digits(n) ==
    LET count == CHOOSE c \in 1..10 : n < 10 ^ c /\ (c = 1 \/ n >= 10 ^ (c - 1))
    IN  [k \in 1..count |-> 48 + ((n \div (10 ^ (count - k))) % 10)]

\* the k with |d| = k / 1000, for the doubles from 0.001 up to 2^20 that are
\* such a quotient: |d| * 1000 rounded to the nearest integer
Thousandths(d) ==
    LET e == d.exp - 1023
        m == MagAdd(MagPow2(52), d.frac)
        m1000 == MagSub(MagSub(MagShiftLeft(m, 10), MagShiftLeft(m, 4)), MagShiftLeft(m, 3))
    IN  IF d.exp = 0 THEN 0
        ELSE MagToNat(MagShiftRight(MagAdd(m1000, MagPow2(51 - e)), 52 - e))

\* the digits after the point of k / 1000, trailing zeros dropped
FractionDigits(k) ==
    LET f == k % 1000
    IN  IF f % 100 = 0 THEN <<48 + (f \div 100)>>
        ELSE IF f % 10 = 0 THEN <<48 + (f \div 100), 48 + ((f \div 10) % 10)>>
        ELSE <<48 + (f \div 100), 48 + ((f \div 10) % 10), 48 + (f % 10)>>

\* String(value) of a number: "70000", "-128", "1.5", "0.001", "NaN", "Infinity"
NumberToString(value) ==
    LET nan == <<78, 97, 78>>
        infinity == <<73, 110, 102, 105, 110, 105, 116, 121>>
        k == Thousandths(value.f64)
    IN  IF value.num = "nan" THEN nan
        ELSE IF value.num = "inf" THEN
            (IF value.f64.sign = 1 THEN <<45>> ELSE <<>>) \o infinity
        ELSE IF value.num = "int" THEN
            (IF value.int.neg /\ value.int.mag # MagZero THEN <<45>> ELSE <<>>)
            \o Digits(MagToNat(value.int.mag))
        ELSE (IF value.f64.sign = 1 THEN <<45>> ELSE <<>>)
             \o Digits(k \div 1000) \o <<46>> \o FractionDigits(k)

\* `${ value }` of what parseTag is given, a string or a number; else
\* "undefined", "null" or "[object Object]"
StringOf(value) ==
    IF value.t = "string" THEN value.bytes
    ELSE IF value.t = "number" THEN NumberToString(value)
    ELSE IF value.t = "undefined" THEN <<117, 110, 100, 101, 102, 105, 110, 101, 100>>
    ELSE IF value.t = "null" THEN <<110, 117, 108, 108>>
    ELSE <<91, 111, 98, 106, 101, 99, 116, 32, 79, 98, 106, 101, 99, 116, 93>>

\* lines 133-138: "<true/>", "<false/>" or "<tag>value</tag>"
parseTag(tag, value) ==
    IF value.t = "boolean"
    THEN IF value.bool THEN <<60, 116, 114, 117, 101, 47, 62>>
         ELSE <<60, 102, 97, 108, 115, 101, 47, 62>>
    ELSE <<60>> \o tag \o <<62>> \o StringOf(value) \o <<60, 47>> \o tag \o <<62>>

\* the character of a 6-bit group in the base64 alphabet
Base64Char(c) ==
    IF c < 26 THEN 65 + c
    ELSE IF c < 52 THEN 97 + (c - 26)
    ELSE IF c < 62 THEN 48 + (c - 52)
    ELSE IF c = 62 THEN 43 ELSE 47

\* value.toString('base64')
Base64(bytes) ==
    LET n == Len(bytes)
        At(k) == IF k <= n THEN bytes[k] ELSE 0
        Group(g) ==
            LET b1 == At(3 * g - 2)
                b2 == At(3 * g - 1)
                b3 == At(3 * g)
            IN  <<Base64Char(b1 \div 4),
                  Base64Char(((b1 % 4) * 16) + (b2 \div 16)),
                  IF 3 * g - 1 > n THEN 61 ELSE Base64Char(((b2 % 16) * 4) + (b3 \div 64)),
                  IF 3 * g > n THEN 61 ELSE Base64Char(b3 % 64)>>
    IN  Concat([g \in 1..((n + 2) \div 3) |-> Group(g)])

\* Object.entries(value) of an object: the own enumerable properties, none
\* for a Date and for a Set
ObjectEntries(value) ==
    IF value.t = "object"
    THEN [k \in 1..Len(value.keys) |-> [key |-> value.keys[k], val |-> value.items[k]]]
    ELSE <<>>

\* lines 195-218; Object.entries(null) throws a TypeError
RECURSIVE encodeValue(_)
encodeValue(value) ==
    LET string == <<115, 116, 114, 105, 110, 103>>
        integer == <<105, 110, 116, 101, 103, 101, 114>>
        real == <<114, 101, 97, 108>>
        array == <<97, 114, 114, 97, 121>>
        dict == <<100, 105, 99, 116>>
        keyOpen == <<60, 107, 101, 121, 62>>
        keyClose == <<60, 47, 107, 101, 121, 62>>
    IN
    IF TypeOf(value) = "string" THEN Return(parseTag(string, value))
    ELSE IF TypeOf(value) = "number" THEN
        Return(parseTag(IF value.num = "int" THEN integer ELSE real, value))
    ELSE IF TypeOf(value) = "boolean" THEN Return(parseTag(<<>>, value))
    ELSE IF value.t = "buffer" THEN
        Return(parseTag(<<100, 97, 116, 97>>, JSString(Base64(value.bytes))))
    ELSE IF value.t = "array" THEN
        LET rs == [k \in 1..Len(value.items) |-> encodeValue(value.items[k])]
            failed == {k \in 1..Len(rs) : ~rs[k].ok}
        IN  IF failed # {} THEN rs[SetMin(failed)]
            ELSE Return(parseTag(array, JSString(Concat([k \in 1..Len(rs) |-> rs[k].value]))))
    ELSE IF TypeOf(value) = "object" THEN
        IF value.t = "null" THEN Throw("TypeError")
        ELSE
        LET entries == ObjectEntries(value)
            rs == [k \in 1..Len(entries) |-> encodeValue(entries[k].val)]
            failed == {k \in 1..Len(rs) : ~rs[k].ok}
            Entry(k) == keyOpen \o entries[k].key \o keyClose \o rs[k].value
        IN  IF failed # {} THEN rs[SetMin(failed)]
            ELSE Return(parseTag(dict, JSString(Concat([k \in 1..Len(rs) |-> Entry(k)]))))
    ELSE Throw("Error: Unsupported data type: " \o TypeOf(value))

\* lines 268-278; the text ends with "</plist>"
encodePlist(value) ==
    IF value.t = "null" THEN Throw("Error: Input must be a valid JavaScript object.")
    ELSE LET fragment == encodeValue(value)
         IN  IF ~fragment.ok THEN fragment
             ELSE Return(xmlVersion \o doctype \o plistVersion
                         \o fragment.value \o <<60, 47, 112, 108, 105, 115, 116, 62>>)

----------------------------------------------------------------------------
(* Inputs *)

\* 2^k + d and 2^k - d
MagInputs ==
    {MagAdd(MagPow2(k), MagOfNat(d)) : k \in 0..MaxExp, d \in 0..MaxDelta}
    \cup {MagSub(MagPow2(k), MagOfNat(d)) :
            k \in {x \in 0..MaxExp : x >= MaxDelta}, d \in 1..MaxDelta}
    \cup {MagOfNat(d) : d \in 0..MaxDelta}

IntInputs == {Big(neg, m) : neg \in BOOLEAN, m \in MagInputs}

\* an integer a double holds exactly: up to 2^53, or a power of two
IsDoubleInt(x) == MagLE(x.mag, MagPow2(53)) \/ \E k \in 0..MaxExp : x.mag = MagPow2(k)

\* the integral doubles and the BigInts
IntegerInputs ==
    {JSNumber(x) : x \in {y \in IntInputs : IsDoubleInt(y)}}
    \cup {JSBigInt(x) : x \in IntInputs}

\* what is neither a BigInt nor an integral number: 1.5, 0.001, NaN,
\* +Infinity, -Infinity, "5", null, undefined, true, a Date, [], {}
NonIntegerInputs ==
    {JSReal("frac", DoubleDiv1000(1500)), JSReal("frac", DoubleDiv1000(1)),
     JSReal("nan", DoubleZero),
     JSReal("inf", DoubleZero), JSReal("inf", [DoubleZero EXCEPT !.sign = 1]),
     JSString(<<53>>), JSNull, JSDefault, JSBool(TRUE), JSDate(0),
     JSArray(<<>>), JSObject(<<>>, <<>>)}

SizeInputs == 0..8

TagInputs == (0 - TagSlack)..(15 + TagSlack)

\* instants with and without a millisecond part, before and after the reference date
DateInputs == {JSDate(sec * 1000 + f) : sec \in (0 - MaxSec)..MaxSec, f \in {0, 1, 500, 999}}

\* offsets from UTC, in minutes, of the zones the process may run in
TimeZones == {-300, 0, 330}

\* scalars: null, booleans, integers, dates, data, "x" and a non-ASCII string
LeafInputs ==
    {JSNull, JSBool(FALSE), JSBool(TRUE),
     JSNumber(BigOfInt(0)), JSNumber(BigOfInt(-128)), JSNumber(BigOfInt(70000)),
     JSDate(0), JSDate(1500), JSBuffer(<<1, 2>>),
     JSString(<<120>>), JSString(<<233>>)}

\* the sequences of up to MaxItems elements of S
SeqsOf(S) == UNION {[1..n -> S] : n \in 0..MaxItems}

IsInjective(f) == \A x, y \in DOMAIN f : f[x] = f[y] => x = y

\* the keys "a" and "b"
KeyInputs == {<<97>>, <<98>>}

\* the arrays, Sets and objects over the values of S
CompositesOf(S) ==
    {JSArray(items) : items \in SeqsOf(S)}
    \cup {JSSet(items) : items \in {x \in SeqsOf(S) : IsInjective(x)}}
    \cup {JSObject(keys, items) :
            <<keys, items>> \in {p \in SeqsOf(KeyInputs) \X SeqsOf(S) :
                                    IsInjective(p[1]) /\ Len(p[1]) = Len(p[2])}}

\* value trees: the scalars, the collections of scalars, and the
\* one-element arrays and objects around such a collection
ValueInputs ==
    LeafInputs
    \cup CompositesOf(LeafInputs)
    \cup {JSArray(<<v>>) : v \in CompositesOf(LeafInputs)}
    \cup {JSObject(<<<<97>>>>, <<v>>) : v \in CompositesOf(LeafInputs)}

\* strings, data and arrays of 14, 15 and 16 elements
LengthInputs ==
    UNION {{JSString(Repeat(65, n)), JSString(Repeat(233, n)),
            JSBuffer(Repeat(1, n)), JSArray(Repeat(JSNull, n))} : n \in 14..16}

\* what encodeType may be given: the value trees, the long values, the
\* integral numbers, the numbers 1.5, 0.001 and NaN, and what it does not
\* take: BigInts, undefined, a function and a symbol
EncodeTypeInputs ==
    ValueInputs \cup LengthInputs
    \cup {v \in IntegerInputs : v.t = "number"}
    \cup {JSReal("frac", DoubleDiv1000(1500)), JSReal("frac", DoubleDiv1000(1)),
          JSReal("nan", DoubleZero),
          JSBigInt(BigOfInt(1)), JSBigInt(Big(TRUE, MagPow2(63))),
          JSBigInt(Big(FALSE, MagPow2(63))),
          JSDefault, JSFunction, JSSymbol}

\* what the XML encoder does not take: undefined, a function, a symbol, a
\* BigInt and null
XmlUnsupportedInputs == {JSDefault, JSFunction, JSSymbol, JSBigInt(BigOfInt(1)), JSNull}

\* scalars of the XML encoder: strings, numbers, booleans, data, a Date, a
\* Set, and what it does not take
XmlLeafInputs ==
    {JSString(<<120>>), JSString(<<>>),
     JSNumber(BigOfInt(0)), JSNumber(BigOfInt(-128)), JSNumber(BigOfInt(70000)),
     JSReal("frac", DoubleDiv1000(1500)), JSReal("frac", DoubleDiv1000(1)),
     JSReal("nan", DoubleZero),
     JSBool(FALSE), JSBool(TRUE), JSBuffer(<<1, 2>>), JSBuffer(<<77, 97, 110>>),
     JSDate(0), JSSet(<<JSNull>>)}
    \cup XmlUnsupportedInputs

\* the arrays [v] and ["x", v] and the objects {a: v} and {a: true, b: v}
XmlAround(S) ==
    UNION {{JSArray(<<v>>), JSArray(<<JSString(<<120>>), v>>),
            JSObject(<<<<97>>>>, <<v>>),
            JSObject(<<<<97>>, <<98>>>>, <<JSBool(TRUE), v>>)} : v \in S}

\* values up to two levels deep, the empty array and object, and the arrays
\* of two values the encoder does not take
XmlInputs ==
    XmlLeafInputs
    \cup XmlAround(XmlLeafInputs)
    \cup XmlAround(XmlAround(XmlLeafInputs))
    \cup {JSArray(<<>>), JSObject(<<>>, <<>>)}
    \cup {JSArray(<<u, v>>) : u, v \in XmlUnsupportedInputs}

----------------------------------------------------------------------------
(* The calls.  Every exported function is stateless: a call starts from    *)
(* the idle state (op = "none") and leaves its arguments and its result;   *)
(* CallReturn goes back to the idle state, so any call may follow any      *)
(* other.                                                                  *)

CallCalculateIntSize ==
    /\ op = "none"
    /\ \E value \in IntegerInputs \cup NonIntegerInputs :
        /\ op' = "calculateIntSize"
        /\ args' = [value |-> value]
        /\ ret' = Outcome("calculateIntSize", calculateIntSize(value))
        /\ UNCHANGED scriptVars

CallEncodeInt ==
    /\ op = "none"
    /\ \E value \in IntegerInputs, size \in SizeInputs :
        /\ op' = "encodeInt"
        /\ args' = [value |-> value, size |-> size]
        /\ ret' = Outcome("encodeInt", encodeInt(value, size))
        /\ UNCHANGED scriptVars

\* decodeInt(encodeInt(value, size), size)
CallDecodeInt ==
    /\ op = "encodeInt"
    /\ ret.ok
    /\ op' = "decodeInt"
    /\ args' = [buffer |-> ret.value, size |-> args.size, encoded |-> args.value]
    /\ ret' = Outcome("decodeInt", decodeInt(ret.value, args.size))
    /\ UNCHANGED scriptVars

CallEncodeTypeInfoStruct ==
    /\ op = "none"
    /\ \E type \in TagInputs, info \in TagInputs :
        /\ op' = "encodeTypeInfoStruct"
        /\ args' = [type |-> type, info |-> info]
        /\ ret' = Outcome("encodeTypeInfoStruct", encodeTypeInfoStruct(type, info))
        /\ UNCHANGED scriptVars

CallDecodeTypeInfoStruct ==
    /\ op = "none"
    /\ \E value \in Byte :
        /\ op' = "decodeTypeInfoStruct"
        /\ args' = [value |-> value]
        /\ ret' = Outcome("decodeTypeInfoStruct", Return(decodeTypeInfoStruct(value)))
        /\ UNCHANGED scriptVars

CallEncodeDateStruct ==
    /\ op = "none"
    /\ \E date \in DateInputs :
        /\ op' = "encodeDateStruct"
        /\ args' = [date |-> date]
        /\ ret' = Outcome("encodeDateStruct", Return(encodeDateStruct(date)))
        /\ UNCHANGED scriptVars

\* decodeDateStruct(encodeDateStruct(date), 0)
CallDecodeDateStruct ==
    /\ op = "encodeDateStruct"
    /\ \E tza \in TimeZones :
        /\ op' = "decodeDateStruct"
        /\ args' = [buffer |-> ret.value, offset |-> 0, tza |-> tza, encoded |-> args.date]
        /\ ret' = Outcome("decodeDateStruct", Return(JSDate(decodeDateStruct(ret.value, 0, tza))))
        /\ UNCHANGED scriptVars

CallEncodeType ==
    /\ op = "none"
    /\ \E datum \in EncodeTypeInputs :
        /\ op' = "encodeType"
        /\ args' = [data |-> datum]
        /\ ret' = Outcome("encodeType", encodeType(datum))
        /\ UNCHANGED scriptVars

CallEncodeBinary ==
    /\ op = "none"
    /\ \E datum \in ValueInputs :
        /\ op' = "encodeBinary"
        /\ args' = [data |-> datum]
        /\ ret' = Outcome("encodeBinary", encodeBinary(datum))
        /\ UNCHANGED scriptVars

CallEncodeBinaryPlist ==
    /\ op = "none"
    /\ \E value \in ValueInputs :
        /\ op' = "encodeBinaryPlist"
        /\ args' = [data |-> value]
        /\ ret' = Outcome("encodeBinaryPlist", encodeBinaryPlist(value))
        /\ UNCHANGED scriptVars

CallEncodeValue ==
    /\ op = "none"
    /\ \E value \in XmlInputs :
        /\ op' = "encodeValue"
        /\ args' = [data |-> value]
        /\ ret' = Outcome("encodeValue", encodeValue(value))
        /\ UNCHANGED scriptVars

CallEncodePlist ==
    /\ op = "none"
    /\ \E value \in XmlInputs :
        /\ op' = "encodePlist"
        /\ args' = [data |-> value]
        /\ ret' = Outcome("encodePlist", encodePlist(value))
        /\ UNCHANGED scriptVars

\* decodeBinary(encodeBinary(data))
CallDecodeBinary ==
    /\ op = "encodeBinary"
    /\ ret.ok
    /\ op' = "decodeBinary"
    /\ args' = [buffer |-> ret.value, encoded |-> args.data]
    /\ ret' = Outcome("decodeBinary", decodeBinary(ret.value))
    /\ UNCHANGED scriptVars

CallReturn ==
    /\ op # "none"
    /\ op' = "none"
    /\ args' = <<>>
    /\ ret' = Outcome("none", Return(<<>>))
    /\ UNCHANGED scriptVars

CallNext ==
    \/ CallReturn
    \/ CallCalculateIntSize
    \/ CallEncodeInt
    \/ CallDecodeInt
    \/ CallEncodeTypeInfoStruct
    \/ CallDecodeTypeInfoStruct
    \/ CallEncodeDateStruct
    \/ CallDecodeDateStruct
    \/ CallEncodeType
    \/ CallEncodeBinary
    \/ CallEncodeBinaryPlist
    \/ CallEncodeValue
    \/ CallEncodePlist
    \/ CallDecodeBinary

----------------------------------------------------------------------------
(* The start-up script of binary.component.ts, lines 198-267.  Lines       *)
(* 133-139 before it only print the results of pure calls.                 *)

NoView == [off |-> 0, len |-> 0]

WholeView(buffer) == [off |-> 0, len |-> Len(buffer)]

\* lines 198-200
ScriptSlice ==
    /\ pc = "start"
    /\ header' = Subarray(WholeView(data), 0, 8)
    /\ trailer' = Subarray(WholeView(data), Len(data) - 32, Len(data))
    /\ pc' = "sliced"
    /\ UNCHANGED <<data, headerObject, trailerObject, content, tempBuffer, i, stdout,
                   thrown>>
    /\ UNCHANGED callVars

\* lines 202-206
ScriptParse ==
    /\ pc = "sliced"
    /\ LET h == toObject(scriptHeaderStruct, ViewBytes(data, header))
           t == toObject(scriptTrailerStruct, ViewBytes(data, trailer))
       IN  IF h.ok /\ t.ok
           THEN /\ headerObject' = h.value
                /\ trailerObject' = t.value
                /\ pc' = "parsed"
                /\ UNCHANGED thrown
           ELSE /\ pc' = "crashed"
                /\ thrown' = (IF h.ok THEN t.error ELSE h.error)
                /\ UNCHANGED <<headerObject, trailerObject>>
    /\ UNCHANGED <<data, header, trailer, content, tempBuffer, i, stdout>>
    /\ UNCHANGED callVars

\* lines 208 and 249
ScriptContent ==
    /\ pc = "parsed"
    /\ content' = Subarray(WholeView(data),
                           8 + IndexOf(trailerObject.offsetTableOffset),
                           Len(data) - 32)
    /\ tempBuffer' = content'
    /\ i' = 0
    /\ pc' = "loop"
    /\ UNCHANGED <<data, header, trailer, headerObject, trailerObject, stdout, thrown>>
    /\ UNCHANGED callVars

\* one iteration of the loop of lines 250-267; readUInt8(1) throws a
\* RangeError when the buffer has no byte at index 1, and the script dies
ScriptLoop ==
    /\ pc = "loop"
    /\ i < IndexOf(trailerObject.numObjects)
    /\ i < MaxIter
    /\ LET offset_entry == Subarray(tempBuffer, 0, trailerObject.offsetIntSize)
           rest == Subarray(tempBuffer, trailerObject.offsetIntSize, tempBuffer.len)
       IN  /\ tempBuffer' = rest
           /\ IF rest.len >= 2
              THEN /\ stdout' = <<ViewBytes(data, offset_entry), data[rest.off + 2]>>
                   /\ i' = i + 1
                   /\ pc' = "loop"
                   /\ UNCHANGED thrown
              ELSE /\ stdout' = <<ViewBytes(data, offset_entry)>>
                   /\ pc' = "crashed"
                   /\ thrown' = "RangeError"
                   /\ UNCHANGED i
    /\ UNCHANGED <<data, header, trailer, headerObject, trailerObject, content>>
    /\ UNCHANGED callVars

\* the loop's exit
ScriptEnd ==
    /\ pc = "loop"
    /\ i >= IndexOf(trailerObject.numObjects)
    /\ pc' = "done"
    /\ UNCHANGED <<data, header, trailer, headerObject, trailerObject, content,
                   tempBuffer, i, stdout, thrown>>
    /\ UNCHANGED callVars

ScriptNext ==
    \/ ScriptSlice
    \/ ScriptParse
    \/ ScriptContent
    \/ ScriptLoop
    \/ ScriptEnd

----------------------------------------------------------------------------

ScriptStart(image) ==
    /\ pc = "start"
    /\ data = image
    /\ header = NoView
    /\ trailer = NoView
    /\ headerObject = <<>>
    /\ trailerObject = <<>>
    /\ content = NoView
    /\ tempBuffer = NoView
    /\ i = 0
    /\ stdout = <<>>
    /\ thrown = "none"

NoCall ==
    /\ op = "none"
    /\ args = <<>>
    /\ ret = Outcome("none", Return(<<>>))

\* the exported functions, called in a process that has not run the script
Init == NoCall /\ ScriptStart(SampleFile)

Next == CallNext

Spec == Init /\ [][Next]_vars

\* the script, run on a well-formed file image
ScriptInit == NoCall /\ \E image \in FileInputs : ScriptStart(image)

ScriptSpec == ScriptInit /\ [][ScriptNext]_vars

\* the script, run on any buffer: a file image or a buffer that is none
ScriptAnyInit == NoCall /\ \E image \in FileInputs \cup BufferInputs : ScriptStart(image)

ScriptAnySpec == ScriptAnyInit /\ [][ScriptNext]_vars

----------------------------------------------------------------------------
(* Properties *)

\* the values of a tree: the tree, its elements and its keys, recursively
RECURSIVE SubValues(_)
SubValues(v) ==
    {v}
    \cup {JSString(v.keys[k]) : k \in 1..Len(v.keys)}
    \cup UNION {SubValues(v.items[k]) : k \in 1..Len(v.items)}

\* the objects of a file image whose encoding starts with the bytes enc:
\* the entries of its offset table that point at such bytes
ObjectsEncodedAs(buffer, enc) ==
    IF Len(buffer) < 40 THEN {}
    ELSE LET tr == toObject(trailerStruct, SubSeq(buffer, Len(buffer) - 31, Len(buffer))).value
             start == IndexOf(tr.offsetTableOffset)
             width == tr.offsetTableOffsetSize
         IN  {k \in 1..IndexOf(tr.numberOfObjects) :
                LET at == UIntAt(buffer, start + (k - 1) * width, width)
                IN  SubSeq(buffer, at + 1, at + Len(enc)) = enc}

\* C1: decodeBinary(encodeBinary(v)) returns a value structurally equal to v,
\* for every value tree v.
C1_RoundTrip ==
    op = "decodeBinary" => ret.ok /\ ret.value = args.encoded

\* C2: the binary encoders return a complete bplist00 file image: at least
\* 40 bytes, the magic "bplist00" first, a 32-byte trailer last whose
\* numberOfObjects is at least 1 and counts the encoded objects, and the
\* offset table between the header and the trailer.
C2_CompleteFileImage ==
    op \in {"encodeBinary", "encodeBinaryPlist"} =>
        /\ ret.ok
        /\ Len(ret.value) >= 40
        /\ SubSeq(ret.value, 1, 8) = <<98, 112, 108, 105, 115, 116, 48, 48>>
        /\ LET tr == toObject(trailerStruct,
                              SubSeq(ret.value, Len(ret.value) - 31, Len(ret.value))).value
               count == IndexOf(tr.numberOfObjects)
               start == IndexOf(tr.offsetTableOffset)
           IN  /\ count >= 1
               /\ count = Cardinality(SubValues(args.data))
               /\ start >= 8
               /\ start + count * tr.offsetTableOffsetSize = Len(ret.value) - 32

\* C3: structurally equal values of the input tree share one object: the
\* image encodeBinary returns holds exactly one encoded copy of each
\* distinct scalar of the tree.
C3_OneCopyOfEachValue ==
    op = "encodeBinary" =>
        \A x \in SubValues(args.data) :
            (x.t \in {"null", "boolean", "number", "date"} /\ encodeType(x).ok) =>
                Cardinality(ObjectsEncodedAs(ret.value, encodeType(x).value)) = 1

\* the minimal width in {1, 2, 4, 8} that holds x in two's complement
MinimalWidth(x) == SetMin({w \in {1, 2, 4, 8} : FitsSigned(x, w)})

\* C4: for every integer of the 64-bit signed range, calculateIntSize returns
\* the smallest width w in {1, 2, 4, 8} with -2^(8w-1) <= v <= 2^(8w-1) - 1
\* (-128 fits 1 byte, -32768 fits 2, -2147483648 fits 4).
C4_MinimalWidth ==
    (op = "calculateIntSize" /\ IsIntegerOrBigInt(args.value)
        /\ FitsSigned(args.value.int, 8)) =>
        ret.ok /\ ret.value = MinimalWidth(args.value.int)

\* the sizes of the fields of a schema, in order
FieldSizes(struct) == [k \in 1..Len(struct) |-> struct[k].size]

\* C5: every trailer schema the program uses describes 32 bytes: 5 reserved,
\* sortVersion, offset width, reference width, then numberOfObjects, the root
\* index and offsetTableOffset of 8 bytes each; so the offsetTableOffset
\* parsed from the last 32 bytes of a buffer is the value of its final 8
\* bytes.
C5_TrailerSchemas ==
    pc = "parsed" =>
        /\ \A struct \in {trailerStruct, scriptTrailerStruct} :
              StructSize(struct) = 32 /\ FieldSizes(struct) = <<5, 1, 1, 1, 8, 8, 8>>
        /\ trailerObject.offsetTableOffset
              = Big(FALSE, MagOfBytes(SubSeq(data, Len(data) - 7, Len(data))))

\* C6: the decoder takes the offset table at byte offsetTableOffset from the
\* start of the buffer (no header length added) and reads numberOfObjects
\* entries of offsetTableOffsetSize bytes; in a well-formed file the table
\* ends where the trailer begins.
C6_OffsetTableRegion ==
    pc \in {"loop", "done", "crashed"} =>
        LET tr == toObject(trailerStruct, SubSeq(data, Len(data) - 31, Len(data))).value
        IN  /\ content.off = IndexOf(tr.offsetTableOffset)
            /\ content.len = IndexOf(tr.numberOfObjects) * tr.offsetTableOffsetSize
            /\ content.off + content.len = Len(data) - 32

\* C7: decodeDateStruct(encodeDateStruct(d), 0) is the instant d, for every
\* instant of millisecond resolution, before or after the reference date;
\* the delta encoded for the reference date itself is 0.
C7_DateRoundTrip ==
    /\ op = "decodeDateStruct" => ret.value.ms = args.encoded.ms
    /\ (op = "encodeDateStruct" /\ args.date.ms = REFERENCE_DATE) =>
            SubSeq(ret.value, 2, 9) = <<0, 0, 0, 0, 0, 0, 0, 0>>

\* the bytes hold x in big-endian two's complement: read as an unsigned
\* number they are x, or 2^(8w) - |x| for a negative x
IsTwosComplement(bytes, x) ==
    IF x.neg
    THEN bytes[1] >= 128 /\ MagAdd(MagOfBytes(bytes), x.mag) = MagPow2(8 * Len(bytes))
    ELSE bytes[1] < 128 /\ MagOfBytes(bytes) = x.mag

\* C8: for each width w in {1, 2, 4, 8} and each v with
\* -2^(8w-1) <= v <= 2^(8w-1) - 1, encodeInt(v, w) returns w bytes holding v
\* in big-endian two's complement, and decodeInt of them with width w is v.
C8_IntRoundTrip ==
    /\ (op = "encodeInt" /\ args.size \in {1, 2, 4, 8}
            /\ FitsSigned(args.value.int, args.size)) =>
          /\ ret.ok
          /\ Len(ret.value) = args.size
          /\ IsTwosComplement(ret.value, args.value.int)
    /\ op = "decodeInt" =>
          /\ FitsSigned(args.encoded.int, args.size)
          /\ ret.ok
          /\ ret.value = args.encoded.int

\* -2^63 went through encodeInt and decodeInt with width 8
C8_Witness ==
    /\ op = "decodeInt"
    /\ args.size = 8
    /\ args.encoded.int = Big(TRUE, MagPow2(63))
    /\ args.buffer = <<128, 0, 0, 0, 0, 0, 0, 0>>
    /\ ret.ok

\* C9: encodeTypeInfoStruct(kind, info) is kind * 16 + info, a byte, when
\* both are in 0..15, and throws RangeError when either is not.
C9_PackTag ==
    op = "encodeTypeInfoStruct" =>
        IF args.type \in 0..15 /\ args.info \in 0..15
        THEN ret.ok /\ ret.value = args.type * 16 + args.info /\ ret.value \in 0..255
        ELSE ~ret.ok /\ ret.error = "RangeError"

\* a tag was packed from the largest kind and a middle info
C9_Witness ==
    /\ op = "encodeTypeInfoStruct"
    /\ args.type = 15
    /\ args.info = 7
    /\ ret.ok
    /\ ret.value = 247

\* C10: decodeTypeInfoStruct splits every byte into a type and an info of
\* 0..15 from which encodeTypeInfoStruct rebuilds the byte, and it returns
\* the kind and info of every tag encodeTypeInfoStruct packs.
C10_UnpackTag ==
    /\ op = "decodeTypeInfoStruct" =>
          /\ ret.ok
          /\ ret.value.type \in 0..15
          /\ ret.value.info \in 0..15
          /\ encodeTypeInfoStruct(ret.value.type, ret.value.info).ok
          /\ encodeTypeInfoStruct(ret.value.type, ret.value.info).value = args.value
    /\ (op = "encodeTypeInfoStruct" /\ ret.ok) =>
          decodeTypeInfoStruct(ret.value) = [type |-> args.type, info |-> args.info]

\* the byte 0xAF was split into kind 10 and info 15
C10_Witness ==
    /\ op = "decodeTypeInfoStruct"
    /\ args.value = 175
    /\ ret.value = [type |-> 10, info |-> 15]

\* x <= n, for an integer x that is not negative and a small number n
AtMost(x, n) == ~x.neg /\ MagLE(x.mag, MagOfNat(n))

\* C15: for a value that is not negative, calculateIntSize is 1 exactly on
\* 0..127, 2 exactly on 128..32767, 4 exactly on 32768..2147483647 and 8
\* exactly on 2147483648..2^63-1.
C15_WidthBoundaries ==
    (op = "calculateIntSize" /\ args.value.t \in {"number", "bigint"}
        /\ args.value.num = "int" /\ ~args.value.int.neg
        /\ MagLT(args.value.int.mag, MagPow2(63))) =>
        LET v == args.value.int
        IN  /\ ret.ok
            /\ ret.value \in {1, 2, 4, 8}
            /\ ret.value = 1 <=> AtMost(v, 127)
            /\ ret.value = 2 <=> (~AtMost(v, 127) /\ AtMost(v, 32767))
            /\ ret.value = 4 <=> (~AtMost(v, 32767) /\ AtMost(v, 2147483647))
            /\ ret.value = 8 <=> ~AtMost(v, 2147483647)

\* 32768, the first value past the 2-byte range, was given 4 bytes
C15_Witness ==
    /\ op = "calculateIntSize"
    /\ args.value = JSNumber(BigOfInt(32768))
    /\ ret.ok
    /\ ret.value = 4

\* C16: calculateIntSize throws RangeError exactly when the integer lies
\* outside -(2^63)..2^63-1: every integer of that range, -(2^63) included,
\* gets a width, every integer outside it a RangeError.
C16_RangeErrorOutsideInt64 ==
    (op = "calculateIntSize" /\ args.value.t \in {"number", "bigint"}
        /\ args.value.num = "int") =>
        IF FitsSigned(args.value.int, 8)
        THEN ret.ok /\ ret.value \in {1, 2, 4, 8}
        ELSE ~ret.ok /\ ret.error = "RangeError"

\* C17: calculateIntSize throws TypeError exactly when its input is neither
\* a BigInt nor a number with an integer value; the test comes before the
\* range test (an infinite number gets TypeError, not RangeError), and a
\* BigInt never gets TypeError.
C17_TypeErrorForNonIntegers ==
    op = "calculateIntSize" =>
        LET v == args.value
        IN  /\ (v.t # "bigint" /\ (v.t # "number" \/ v.num \in {"frac", "nan", "inf"}))
                => (~ret.ok /\ ret.error = "TypeError")
            /\ (v.t = "number" /\ v.num = "int") => (ret.ok \/ ret.error = "RangeError")
            /\ v.t = "bigint" => (ret.ok \/ ret.error = "RangeError")

\* -Infinity, outside every range, was refused as a TypeError
C17_Witness ==
    /\ op = "calculateIntSize"
    /\ args.value.t = "number"
    /\ args.value.num = "inf"
    /\ args.value.f64.sign = 1
    /\ ~ret.ok
    /\ ret.error = "TypeError"

\* the kind of a value's variant, as the high nibble of a type tag
KindOf(v) ==
    CASE v.t \in {"null", "boolean"} -> 0
      [] v.t = "number" /\ v.num = "int" -> 1
      [] v.t = "number" /\ v.num # "int" -> 2
      [] v.t = "date" -> 3
      [] v.t = "buffer" -> 4
      [] v.t = "string" /\ (\A k \in 1..Len(v.bytes) : v.bytes[k] < 128) -> 5
      [] v.t = "string" /\ (\E k \in 1..Len(v.bytes) : v.bytes[k] >= 128) -> 6
      [] v.t = "array" -> 10
      [] v.t = "set" -> 12
      [] v.t = "object" -> 13

\* the values encodeType supports: the variants of its signature, an
\* integer being one of the 64-bit signed range
IsSupported(v) ==
    /\ v.t \in {"null", "boolean", "number", "date", "buffer", "string",
                "array", "set", "object"}
    /\ (v.t = "number" /\ v.num = "int") => FitsSigned(v.int, 8)

\* C11: for every supported value encodeType returns a non-empty encoding
\* whose first byte is a type tag with the kind of the value in its high
\* nibble: 0 null and booleans, 1 integer, 2 real, 3 date, 4 data, 5 ASCII
\* string, 6 other string, 0xA array, 0xC Set, 0xD plain object.
C11_TypeTagKind ==
    (op = "encodeType" /\ IsSupported(args.data)) =>
        /\ ret.ok
        /\ Len(ret.value) >= 1
        /\ ret.value[1] \div 16 = KindOf(args.data)

\* the payload length of a string or of data, the element count of a collection
PayloadCount(v) ==
    IF v.t \in {"buffer", "string"} THEN Len(v.bytes)
    ELSE IF v.t = "object" THEN Len(v.keys)
    ELSE Len(v.items)

\* C13: the tag of a string, data or collection of n elements has the info
\* nibble n when n < 15, and 0xF followed by the encoded integer n when
\* n >= 15 (14 is inline, 15 is escaped).
C13_LengthEscape ==
    (op = "encodeType"
        /\ args.data.t \in {"buffer", "string", "array", "set", "object"}) =>
        LET n == PayloadCount(args.data)
            escape == encodeType(JSNumber(BigOfInt(n))).value
        IN  /\ ret.ok
            /\ Len(ret.value) >= 1
            /\ n < 15 => ret.value[1] % 16 = n
            /\ n >= 15 => /\ ret.value[1] % 16 = 15
                          /\ Len(ret.value) >= 1 + Len(escape)
                          /\ SubSeq(ret.value, 2, 1 + Len(escape)) = escape

\* the trailer of a file image, and the entries of its offset table
ImageTrailer(buffer) ==
    toObject(trailerStruct, SubSeq(buffer, Len(buffer) - 31, Len(buffer))).value

ImageOffsets(buffer) ==
    LET tr == ImageTrailer(buffer)
    IN  [k \in 1..IndexOf(tr.numberOfObjects) |->
            UIntAt(buffer, IndexOf(tr.offsetTableOffset)
                            + (k - 1) * tr.offsetTableOffsetSize,
                   tr.offsetTableOffsetSize)]

\* the root object of the image is the dictionary v: the tag with the pair
\* count, then the references of all the keys in insertion order, then the
\* references of all the values in the same order
IsDictionaryImage(buffer, v) ==
    LET tr == ImageTrailer(buffer)
        offsets == ImageOffsets(buffer)
        n == Len(v.keys)
        root == IndexOf(tr.rootObjectOffset)
        pos == offsets[root + 1]
        Ref(k) == UIntAt(buffer, pos + 1 + (k - 1) * tr.objectReferenceSize,
                         tr.objectReferenceSize)
        Object(k) == ResolveObject(buffer, offsets, tr.objectReferenceSize, Ref(k), {})
    IN  /\ root < Len(offsets)
        /\ buffer[pos + 1] = 13 * 16 + n
        /\ \A k \in 1..n : Object(k) = Return(JSString(v.keys[k]))
        /\ \A k \in 1..n : Object(n + k) = Return(v.items[k])

\* C12: a dictionary of n pairs is encoded as its tag with the count n, the
\* n key references in insertion order, then the n value references in the
\* same order; decoding pairs the i-th key with the i-th value, so the keys
\* come back in insertion order ("b", "a" stays "b", "a").
C12_DictionaryOrder ==
    /\ (op = "encodeBinary" /\ args.data.t = "object") =>
          /\ ret.ok
          /\ Len(ret.value) >= 40
          /\ IsDictionaryImage(ret.value, args.data)
    /\ (op = "decodeBinary" /\ args.encoded.t = "object") =>
          /\ ret.ok
          /\ ret.value.t = "object"
          /\ ret.value.keys = args.encoded.keys
          /\ ret.value.items = args.encoded.items

\* the minimal width in {1, 2, 4, 8} of an unsigned index below 2^31
IndexWidth(n) == IF n < 256 THEN 1 ELSE IF n < 65536 THEN 2 ELSE 4

\* C14: the objectReferenceSize of the trailer encodeBinary writes is the
\* minimal width in {1, 2, 4, 8} that holds the largest object index, the
\* number of objects less one (1 for 3 objects).
C14_ReferenceWidth ==
    op = "encodeBinary" =>
        /\ ret.ok
        /\ Len(ret.value) >= 40
        /\ ImageTrailer(ret.value).objectReferenceSize
              = IndexWidth(Cardinality(SubValues(args.data)) - 1)

\* the first 6 bytes of the script's buffer are "bplist"
HasMagic == SubSeq(data, 1, 6) = <<98, 112, 108, 105, 115, 116>>

IsCorruptOffsetTable ==
    LET tr == ImageTrailer(data)
        start == IndexOf(tr.offsetTableOffset)
        count == IndexOf(tr.numberOfObjects)
        width == tr.offsetTableOffsetSize
    IN  \/ start > Len(data)
        \/ /\ count < 64
           /\ start + count * width <= Len(data)
           /\ \E k \in 1..count :
                LET entry == UIntAt(data, start + (k - 1) * width, width)
                IN  entry < 8 \/ entry >= Len(data) - 32

IsSoundOffsetTable ==
    /\ Len(data) >= 40
    /\ HasMagic
    /\ LET tr == ImageTrailer(data)
           start == IndexOf(tr.offsetTableOffset)
           count == IndexOf(tr.numberOfObjects)
           width == tr.offsetTableOffsetSize
       IN  /\ count < 64
           /\ width \in {1, 2, 4}
           /\ tr.objectReferenceSize \in {1, 2, 4}
           /\ start + count * width <= Len(data) - 32
           /\ \A k \in 1..count :
                LET entry == UIntAt(data, start + (k - 1) * width, width)
                IN  entry >= 8 /\ entry < Len(data) - 32

\* the indices the object of this index refers to: those of an array, set
\* or dictionary with its count in the tag, none for the other kinds
ObjectRefs(buffer, index) ==
    LET tr == ImageTrailer(buffer)
        pos == ImageOffsets(buffer)[index + 1]
        kind == buffer[pos + 1] \div 16
        info == buffer[pos + 1] % 16
        n == IF kind = 13 THEN 2 * info ELSE info
    IN  IF kind \in {10, 12, 13} /\ info < 15
        THEN {UIntAt(buffer, pos + 1 + (k - 1) * tr.objectReferenceSize,
                     tr.objectReferenceSize) : k \in 1..n}
        ELSE {}

\* some object of the buffer refers to an index that is no object, or
\* reaches its own index through references
HasBadReference ==
    LET n == IndexOf(ImageTrailer(data).numberOfObjects)
        Refs(k) == IF k < n THEN ObjectRefs(data, k) ELSE {}
        Reach(k) ==
            LET R[t \in 0..n] ==
                    IF t = 0 THEN Refs(k)
                    ELSE R[t - 1] \cup UNION {Refs(j) : j \in R[t - 1]}
            IN  R[n]
    IN  \E k \in 0..(n - 1) :
            \/ \E r \in Refs(k) : r >= n
            \/ k \in Reach(k)

IsUnsupported(value) == value.t \in {"undefined", "function", "symbol", "bigint", "null"}

\* the unsupported values of a tree, in the order the encoder meets them
RECURSIVE Unsupporteds(_)
Unsupporteds(value) ==
    IF IsUnsupported(value) THEN <<value>>
    ELSE IF value.t \in {"array", "object"}
    THEN Concat([k \in 1..Len(value.items) |-> Unsupporteds(value.items[k])])
    ELSE <<>>

\* C23: encodeValue of a value that is, or holds at any depth, something
\* other than a string, number, boolean, Buffer, array or object (undefined,
\* a function, null) throws the Error "Unsupported data type: " followed by
\* the typeof of that value, and returns no fragment.
C23_UnsupportedDataType ==
    (op = "encodeValue" /\ Unsupporteds(args.data) # <<>>) =>
        /\ ~ret.ok
        /\ ret.error = "Error: Unsupported data type: " \o TypeOf(Unsupporteds(args.data)[1])

\* C24: for every integral number v with |v| <= 2^63 - 1, encodeType(v) is
\* 1 + w bytes with w = calculateIntSize(v): the tag of kind 1 with info
\* log2(w), then v in w bytes of big-endian two's complement; w is wide
\* enough, so encodeInt does not throw, and decodeInt of the payload with
\* width w is v.
C24_IntegerObject ==
    (op = "encodeType" /\ args.data.t = "number" /\ args.data.num = "int"
        /\ MagLT(args.data.int.mag, MagPow2(63))) =>
        LET w == calculateIntSize(args.data)
            payload == SubSeq(ret.value, 2, Len(ret.value))
        IN  /\ w.ok
            /\ w.value \in {1, 2, 4, 8}
            /\ FitsSigned(args.data.int, w.value)
            /\ ret.ok
            /\ Len(ret.value) = 1 + w.value
            /\ ret.value[1] = 16 + (CHOOSE k \in 0..3 : 2 ^ k = w.value)
            /\ IsTwosComplement(payload, args.data.int)
            /\ decodeInt(payload, w.value).ok
            /\ decodeInt(payload, w.value).value = args.data.int

\* encodeType(-2147483648) gave the tag 0x13 and the 8 bytes of the number
C24_Witness ==
    /\ op = "encodeType"
    /\ args.data = JSNumber(Big(TRUE, MagPow2(31)))
    /\ ret.ok
    /\ ret.value = <<19, 255, 255, 255, 255, 128, 0, 0, 0>>

\* the object table of a file image is in flattening order: n >= 1 objects
\* with the offsets of the table inside the object region, every reference
\* of an array, set or dictionary below the index of the object that holds
\* it, and the root index of the trailer below n
IsFlattenedImage(buffer) ==
    /\ Len(buffer) >= 40
    /\ LET tr == ImageTrailer(buffer)
           n == IndexOf(tr.numberOfObjects)
           start == IndexOf(tr.offsetTableOffset)
           width == tr.offsetTableOffsetSize
       IN  /\ n >= 1
           /\ n < 64
           /\ width \in {1, 2, 4}
           /\ tr.objectReferenceSize \in {1, 2, 4}
           /\ start + n * width <= Len(buffer) - 32
           /\ \A k \in 1..n : ImageOffsets(buffer)[k] >= 8
           /\ \A k \in 1..n : ImageOffsets(buffer)[k] < start
           /\ \A k \in 0..(n - 1) : \A r \in ObjectRefs(buffer, k) : r < k
           /\ IndexOf(tr.rootObjectOffset) < n

\* C25: after flattening any value tree the object table has the indices
\* 0..n-1, every array, set and dictionary refers only to indices smaller
\* than its own (children are appended before their parent), and the root
\* index recorded in the trailer is below n.
C25_FlattenOrder ==
    op = "encodeBinary" => ret.ok /\ IsFlattenedImage(ret.value)

\* a value of the closed set: null, a boolean, an integer (number or BigInt)
\* of the 64-bit signed range, a real, a Date, data, a string, an array, a
\* Set or a plain object
InValueSet(value) ==
    \/ value.t \in {"null", "boolean", "date", "buffer", "string", "array", "set", "object"}
    \/ value.t = "number" /\ value.num # "int"
    \/ IsIntegerOrBigInt(value) /\ FitsSigned(value.int, 8)

\* the call ended with the error of an unsupported type
IsUnsupportedTypeError == ~ret.ok /\ ret.error = "Error"

\* C26: encodeType fails with the unsupported-type error exactly when its
\* input is outside the closed set of values (undefined, a function, a
\* symbol); null, booleans, integers of the 64-bit signed range given as a
\* number or as a BigInt, reals, Dates, data, strings, arrays, Sets and
\* plain objects are encoded without that error.
C26_UnsupportedTypeOnly ==
    op = "encodeType" =>
        /\ args.data.t \in {"undefined", "function", "symbol"} => IsUnsupportedTypeError
        /\ InValueSet(args.data) => ~IsUnsupportedTypeError

\* the script has reached its loop: it is in it, past it, or died in it
InScan == pc \in {"loop", "done"} \/ (pc = "crashed" /\ thrown = "RangeError")

\* the region the loop scans holds exactly numObjects entries of
\* offsetIntSize bytes, for an entry width of the format
IsExactTable ==
    LET n == IndexOf(trailerObject.numObjects)
        size == trailerObject.offsetIntSize
    IN  size \in {1, 2, 4, 8} /\ n <= content.len /\ content.len = n * size

====
